---- MODULE Spec2Model ----
(***************************************************************************)
(* The service worker of the portfolio site (src/unnamed/part_003): the    *)
(* request classifier, the fetch dispatcher, the three caching strategies  *)
(* (cacheFirst, networkFirst, staleWhileRevalidate), the offline fallback, *)
(* the hit / miss / network counters, the install and activate handlers,   *)
(* the background sync of the contact-form queue, the periodic cache       *)
(* update and the metrics message;                                         *)
(* and the contact form of the page script (src/script-optimized.js).      *)
(*                                                                         *)
(* Every `await` of the source is a step boundary: a handler execution is  *)
(* a record with a program counter, and executions of different fetch      *)
(* events interleave at those boundaries (single-threaded event loop).     *)
(* A cache.put that the source does not await is an operation in flight    *)
(* that settles in a step of its own.  A live fetch settles with an ok     *)
(* response, a response with an error status, or a rejection.              *)
(*                                                                         *)
(* Spec is the worker serving fetch events through the fetch listener;     *)
(* SpecFn calls each strategy directly, on caches in any state.  SpecLife  *)
(* is the install and activate handlers of this version and the fetch      *)
(* events it serves afterwards; SpecOverlap serves with a bucket of the    *)
(* next version present; SpecSync is the background-sync replay of the     *)
(* queue and the page's contact form; SpecMsg adds the metrics message;    *)
(* SpecReq is the fetch listener over requests of any method; SpecUpdate   *)
(* is the periodic refresh of the dynamic bucket (updateCache) while the   *)
(* strategies serve requests.                                              *)
(***************************************************************************)
EXTENDS Integers, Sequences, FiniteSets, TLC

\* Bounds of the model.
MaxEvents == 2
MaxCalls == 1
MaxFaults == 1
MaxQueue == 2
MaxSyncs == 2
MaxServed == 1

(***************************************************************************)
(* URL strings.  A URL is a sequence of tokens; the tokens are cut so that *)
(* every occurrence of a pattern the classifier looks for is a contiguous  *)
(* run of tokens ('.json' is '.js' followed by 'on', as in the string), so *)
(* String.prototype.includes is contiguous-subsequence containment.        *)
(***************************************************************************)
Includes(url, pat) ==
    \E i \in 1..(Len(url) - Len(pat) + 1) : SubSeq(url, i, i + Len(pat) - 1) = pat

STATIC_CACHE == "static-v2"
DYNAMIC_CACHE == "dynamic-v2"

STATIC_ASSETS ==
    << <<"/">>,
       <<"/", "index", ".html">>,
       <<"/", "critical", ".css">>,
       <<"/", "styles", ".css">>,
       <<"/", "script-optimized", ".js">>,
       <<"/", "manifest", ".js", "on">> >>

CACHE_FIRST == "cache-first"
NETWORK_FIRST == "network-first"
STALE_WHILE_REVALIDATE == "stale-while-revalidate"

isStaticAsset(url) ==
    \/ \E i \in 1..Len(STATIC_ASSETS) : Includes(url, STATIC_ASSETS[i])
    \/ Includes(url, <<".css">>)
    \/ Includes(url, <<".js">>)
    \/ Includes(url, <<".html">>)

isExternalResource(url) ==
    \/ Includes(url, <<"fonts.googleapis.com">>)
    \/ Includes(url, <<"fonts.gstatic.com">>)
    \/ Includes(url, <<"cdnjs.cloudflare.com">>)
    \/ Includes(url, <<"unsplash.com">>)

isAPIRequest(url) ==
    \/ Includes(url, <<"/", "api", "/">>)
    \/ Includes(url, <<".js", "on">>)
    \/ Includes(url, <<"sendgrid.com">>)

DispatchExternalFirst(url) ==
    IF isExternalResource(url) THEN STALE_WHILE_REVALIDATE
    ELSE IF isStaticAsset(url) THEN CACHE_FIRST
    ELSE IF isAPIRequest(url) THEN NETWORK_FIRST
    ELSE CACHE_FIRST

\* The strategy the fetch listener hands a GET request to.
Dispatch(url) ==
    IF isStaticAsset(url) THEN CACHE_FIRST
    ELSE IF isExternalResource(url) THEN STALE_WHILE_REVALIDATE
    ELSE IF isAPIRequest(url) THEN NETWORK_FIRST
    ELSE CACHE_FIRST

(***************************************************************************)
(* The requests of the model: request.url as the browser serialises it     *)
(* (absolute, so it always holds the '//' after the scheme) and            *)
(* request.destination.                                                    *)
(***************************************************************************)
Keys == {"index", "about", "img", "api", "font"}

Origin == <<"https:", "/", "/", "site.example">>

Url ==
    [ index |-> Origin \o <<"/", "index", ".html">>,
      about |-> Origin \o <<"/", "about">>,
      img   |-> <<"https:", "/", "/", "images.", "unsplash.com", "/", "photo">>,
      api   |-> Origin \o <<"/", "api", "/", "contact">>,
      font  |-> <<"https:", "/", "/", "fonts.googleapis.com", "/", "css2">> ]

Dest ==
    [ index |-> "document", about |-> "document", img |-> "image", api |-> "",
      font |-> "style" ]

\* The key that caches.match('/index.html') looks up.
RootPage == "index"

(***************************************************************************)
(* Responses.  `by` is the handler execution whose live fetch produced the *)
(* response (0: none), so two fetches never yield the same response;       *)
(* `ctype` is the Content-Type header ("served": whatever the server sent, *)
(* "text/plain" is what a Response built from a string gets).              *)
(***************************************************************************)
Undefined == [kind |-> "undefined", key |-> "", by |-> 0, status |-> 0, ctype |-> ""]
Rejected  == [kind |-> "rejected",  key |-> "", by |-> 0, status |-> 0, ctype |-> ""]
\* An entry stored before the run begins (install-time addAll, an earlier session).
Stored(k) ==
    [kind |-> "cached", key |-> k, by |-> 0, status |-> 200, ctype |-> "served"]
Live(k, p, s) ==
    [kind |-> "live", key |-> k, by |-> p, status |-> s, ctype |-> "served"]
\* new Response('<svg ...>', {headers: {'Content-Type': 'image/svg+xml'}})
Placeholder ==
    [kind |-> "generated", key |-> "", by |-> 0, status |-> 200,
     ctype |-> "image/svg+xml"]
\* new Response('Offline', {status: 503})
Offline503 ==
    [kind |-> "generated", key |-> "", by |-> 0, status |-> 503,
     ctype |-> "text/plain"]

\* Response.ok
Ok(r) == r.status \in 200..299

VARIABLES
    store,            \* CacheStorage: bucket name -> (key -> response or Undefined)
    h,                \* the handler executions, in the order their events arrived
    faults,           \* cache-storage operations that have failed so far
    cacheHits, cacheMisses, networkRequests,
    names,            \* caches.keys(): the existing buckets, in creation order
    life,             \* the worker's lifecycle: install and activate handlers
    queue,            \* IndexedDB 'PortfolioSW', object store 'requests'
    sync,             \* the execution of syncContactForm
    page,             \* the page script's contact form
    reply,            \* what the message port of a metrics request received
    upd               \* the execution of updateCache

vars == <<store, h, faults, cacheHits, cacheMisses, networkRequests,
          names, life, queue, sync, page, reply, upd>>

\* What the steps of the fetch strategies leave alone.
otherVars == <<names, life, queue, sync, page, reply, upd>>

Buckets == {STATIC_CACHE, DYNAMIC_CACHE}
\* Buckets of other versions of the worker in the origin's CacheStorage:
\* those an earlier version left, and one of the version that comes next.
OldNames == {"static-v1", "dynamic-v1"}
NextNames == {"static-v3"}
AllNames == Buckets \cup OldNames \cup NextNames
EmptyBucket == [k \in Keys |-> Undefined]

\* The first bucket of the sequence ns that holds key k in s, if any.
RECURSIVE FirstMatch(_, _, _)
FirstMatch(ns, s, k) ==
    IF ns = <<>> THEN Undefined
    ELSE IF s[Head(ns)][k] # Undefined THEN s[Head(ns)][k]
    ELSE FirstMatch(Tail(ns), s, k)

\* CacheStorage.match: the first bucket, in creation order, that holds the key.
CachesMatch(s, k) == FirstMatch(names, s, k)

Handlers == 1..Len(h)
Done(p) == h[p].pc = "done"
NetStates == {"ok", "bad", "down"}
Strategies == {CACHE_FIRST, NETWORK_FIRST, STALE_WHILE_REVALIDATE}

PutBucketSwapped(st) == IF st = CACHE_FIRST THEN DYNAMIC_CACHE ELSE STATIC_CACHE

\* The bucket a strategy writes to.
PutBucket(st) == IF st = CACHE_FIRST THEN STATIC_CACHE ELSE DYNAMIC_CACHE

FirstPc(st) ==
    IF st = CACHE_FIRST THEN "cf_match"
    ELSE IF st = NETWORK_FIRST THEN "nf_fetch"
    ELSE "swr_open"

\* What the wrapped fetch of handler p settles with when the network is in
\* state n: an ok response, a response with an error status, or ("down")
\* a rejection.
FetchResult(p, n) ==
    IF n = "ok" THEN Live(h[p].key, p, 200)
    ELSE IF n = "bad" THEN Live(h[p].key, p, 500)
    ELSE Rejected

CountMatchSwapped(c) ==
    IF c = Undefined
    THEN cacheHits' = cacheHits + 1 /\ UNCHANGED cacheMisses
    ELSE cacheMisses' = cacheMisses + 1 /\ UNCHANGED cacheHits

\* The wrapper around caches.match counts a hit or a miss once the lookup
\* has resolved.
CountMatch(c) ==
    IF c # Undefined
    THEN cacheHits' = cacheHits + 1 /\ UNCHANGED cacheMisses
    ELSE cacheMisses' = cacheMisses + 1 /\ UNCHANGED cacheHits

\* The promise handed to respondWith settles with r.
Finish(hh, p, r) == [hh EXCEPT ![p].pc = "done", ![p].resp = r]

getOfflineFallbackNoImage(hh, p) ==
    LET g == [hh EXCEPT ![p].fellBack = TRUE] IN
    IF Dest[g[p].key] = "document" THEN [g EXCEPT ![p].pc = "fb_match"]
    ELSE Finish(g, p, Offline503)

\* getOfflineFallback(request), called where a strategy gives up: a document
\* asks the caches for the root page (one more asynchronous lookup), an
\* image gets the inline SVG, anything else the 503 response.
getOfflineFallback(hh, p) ==
    LET g == [hh EXCEPT ![p].fellBack = TRUE] IN
    IF Dest[g[p].key] = "document" THEN [g EXCEPT ![p].pc = "fb_match"]
    ELSE IF Dest[g[p].key] = "image" THEN Finish(g, p, Placeholder)
    ELSE Finish(g, p, Offline503)

\* The execution that a fetch event begins.  Fields: st, key, method (the
\* strategy, "none" when the listener leaves the event alone, the request
\* and request.method), pc (the await it stands at, or "done"), cached
\* (cachedResponse) and looked (the lookup has resolved), live
\* (networkResponse), resp (what the promise given to respondWith settled
\* with), fetches (live fetches started), fetching (staleWhileRevalidate's
\* fetch is pending), put (the unawaited cache.put: none, pending, written,
\* failed).  History only: after (the executions already settled when this
\* one began), fault (a cache-storage operation of this execution failed),
\* fellBack (getOfflineFallback was called).
Run(st, k, method) ==
    [ st |-> st, key |-> k, method |-> method,
      pc |-> IF st = "none" THEN "done" ELSE FirstPc(st),
      looked |-> FALSE, cached |-> Undefined,
      live |-> Undefined, resp |-> Undefined,
      fetches |-> IF st = NETWORK_FIRST THEN 1 ELSE 0,
      fetching |-> FALSE, put |-> "none",
      after |-> {q \in Handlers : Done(q)},
      fault |-> FALSE, fellBack |-> FALSE ]

\* A strategy is entered for a GET request: the handler execution begins
\* and runs to its first await.
Start(st, k) ==
    /\ h' = Append(h, Run(st, k, "GET"))
    /\ networkRequests' = IF st = NETWORK_FIRST THEN networkRequests + 1
                          ELSE networkRequests
    /\ UNCHANGED <<store, faults, cacheHits, cacheMisses>>
    /\ UNCHANGED otherVars

\* The fetch listener: a GET request goes to the strategy of its category.
FetchEvent(k) == Len(h) < MaxEvents /\ Start(Dispatch(Url[k]), k)

\* A cache-storage operation of handler p fails (quota, corruption).
StorageFault(p) ==
    /\ faults < MaxFaults
    /\ faults' = faults + 1

(***************************************************************************)
(* cacheFirst                                                              *)
(***************************************************************************)
CfMatchRevalidates(p) ==
    /\ h[p].pc = "cf_match"
    /\ LET c == CachesMatch(store, h[p].key) IN
          /\ CountMatch(c)
          /\ h' = [h EXCEPT ![p].looked = TRUE, ![p].cached = c,
                            ![p].pc = "cf_fetch",
                            ![p].fetches = h[p].fetches + 1]
          /\ networkRequests' = networkRequests + 1
    /\ UNCHANGED <<store, faults>>
    /\ UNCHANGED otherVars

\* await caches.match(request): a hit is returned, a miss starts the fetch.
CfMatch(p) ==
    /\ h[p].pc = "cf_match"
    /\ \/ /\ LET c == CachesMatch(store, h[p].key) IN
                /\ CountMatch(c)
                /\ IF c # Undefined
                   THEN /\ h' = Finish([h EXCEPT ![p].looked = TRUE,
                                                 ![p].cached = c], p, c)
                        /\ UNCHANGED networkRequests
                   ELSE /\ h' = [h EXCEPT ![p].looked = TRUE,
                                          ![p].pc = "cf_fetch",
                                          ![p].fetches = h[p].fetches + 1]
                        /\ networkRequests' = networkRequests + 1
          /\ UNCHANGED <<store, faults>>
       \/ /\ StorageFault(p)
          /\ h' = getOfflineFallback([h EXCEPT ![p].fault = TRUE], p)
          /\ UNCHANGED <<store, cacheHits, cacheMisses, networkRequests>>
    /\ UNCHANGED otherVars

\* await fetch(request): an ok response goes on to be cached, another
\* response is returned as it is, a rejection is caught.
CfFetch(p) ==
    /\ h[p].pc = "cf_fetch"
    /\ \E n \in NetStates : LET r == FetchResult(p, n) IN
          h' = IF r = Rejected THEN getOfflineFallback(h, p)
               ELSE IF Ok(r) THEN [h EXCEPT ![p].live = r, ![p].pc = "cf_open"]
               ELSE Finish([h EXCEPT ![p].live = r], p, r)
    /\ UNCHANGED <<store, faults, cacheHits, cacheMisses, networkRequests>>
    /\ UNCHANGED otherVars

\* await caches.open(STATIC_CACHE); cache.put(...) is started and not
\* awaited; the network response is returned.
CfOpen(p) ==
    /\ h[p].pc = "cf_open"
    /\ \/ /\ h' = Finish([h EXCEPT ![p].put = "pending"], p, h[p].live)
          /\ UNCHANGED faults
       \/ /\ StorageFault(p)
          /\ h' = getOfflineFallback([h EXCEPT ![p].fault = TRUE], p)
    /\ UNCHANGED <<store, cacheHits, cacheMisses, networkRequests>>
    /\ UNCHANGED otherVars

\* caches.match('/index.html') of getOfflineFallback settles: the strategy's
\* promise settles with what the lookup gave (undefined on a miss).
FbMatch(p) ==
    /\ h[p].pc = "fb_match"
    /\ \/ /\ LET c == CachesMatch(store, RootPage) IN
                /\ CountMatch(c)
                /\ h' = Finish(h, p, c)
          /\ UNCHANGED faults
       \/ /\ StorageFault(p)
          /\ h' = Finish([h EXCEPT ![p].fault = TRUE], p, Rejected)
          /\ UNCHANGED <<cacheHits, cacheMisses>>
    /\ UNCHANGED <<store, networkRequests>>
    /\ UNCHANGED otherVars

(***************************************************************************)
(* networkFirst                                                            *)
(***************************************************************************)
\* await fetch(request): an ok response goes on to be cached, another
\* response is returned as it is, a rejection is caught.
NfFetch(p) ==
    /\ h[p].pc = "nf_fetch"
    /\ \E n \in NetStates : LET r == FetchResult(p, n) IN
          h' = IF r = Rejected THEN [h EXCEPT ![p].pc = "nf_match"]
               ELSE IF Ok(r) THEN [h EXCEPT ![p].live = r, ![p].pc = "nf_open"]
               ELSE Finish([h EXCEPT ![p].live = r], p, r)
    /\ UNCHANGED <<store, faults, cacheHits, cacheMisses, networkRequests>>
    /\ UNCHANGED otherVars

\* await caches.open(DYNAMIC_CACHE); cache.put(...) is started and not
\* awaited; the network response is returned.
NfOpen(p) ==
    /\ h[p].pc = "nf_open"
    /\ \/ /\ h' = Finish([h EXCEPT ![p].put = "pending"], p, h[p].live)
          /\ UNCHANGED faults
       \/ /\ StorageFault(p)
          /\ h' = [h EXCEPT ![p].fault = TRUE, ![p].pc = "nf_match"]
    /\ UNCHANGED <<store, cacheHits, cacheMisses, networkRequests>>
    /\ UNCHANGED otherVars

\* The catch block: await caches.match(request), the cached entry if there
\* is one, the offline fallback otherwise.
NfMatch(p) ==
    /\ h[p].pc = "nf_match"
    /\ \/ /\ LET c == CachesMatch(store, h[p].key) IN
                /\ CountMatch(c)
                /\ h' = IF c # Undefined
                        THEN Finish([h EXCEPT ![p].looked = TRUE,
                                              ![p].cached = c], p, c)
                        ELSE getOfflineFallback([h EXCEPT ![p].looked = TRUE], p)
          /\ UNCHANGED faults
       \/ /\ StorageFault(p)
          /\ h' = Finish([h EXCEPT ![p].fault = TRUE], p, Rejected)
          /\ UNCHANGED <<cacheHits, cacheMisses>>
    /\ UNCHANGED <<store, networkRequests>>
    /\ UNCHANGED otherVars

(***************************************************************************)
(* staleWhileRevalidate                                                    *)
(***************************************************************************)
\* await caches.open(DYNAMIC_CACHE), outside any try block.
SwrOpen(p) ==
    /\ h[p].pc = "swr_open"
    /\ \/ /\ h' = [h EXCEPT ![p].pc = "swr_match"]
          /\ UNCHANGED faults
       \/ /\ StorageFault(p)
          /\ h' = Finish([h EXCEPT ![p].fault = TRUE], p, Rejected)
    /\ UNCHANGED <<store, cacheHits, cacheMisses, networkRequests>>
    /\ UNCHANGED otherVars

SwrMatchWaits(p) ==
    /\ h[p].pc = "swr_match"
    /\ LET c == store[DYNAMIC_CACHE][h[p].key] IN
          h' = [h EXCEPT ![p].looked = TRUE, ![p].cached = c,
                         ![p].fetching = TRUE,
                         ![p].fetches = h[p].fetches + 1,
                         ![p].pc = "swr_wait"]
    /\ networkRequests' = networkRequests + 1
    /\ UNCHANGED <<store, faults, cacheHits, cacheMisses>>
    /\ UNCHANGED otherVars

\* await cache.match(request) on the dynamic bucket (not the counted
\* caches.match); the fetch is started; `cachedResponse || fetchPromise`
\* is returned: the entry at once, or else the promise, which is waited for.
SwrMatch(p) ==
    /\ h[p].pc = "swr_match"
    /\ \/ /\ LET c == store[DYNAMIC_CACHE][h[p].key]
                 hh == [h EXCEPT ![p].looked = TRUE, ![p].cached = c,
                                 ![p].fetching = TRUE,
                                 ![p].fetches = h[p].fetches + 1]
             IN h' = IF c # Undefined THEN Finish(hh, p, c)
                     ELSE [hh EXCEPT ![p].pc = "swr_wait"]
          /\ networkRequests' = networkRequests + 1
          /\ UNCHANGED faults
       \/ /\ StorageFault(p)
          /\ h' = Finish([h EXCEPT ![p].fault = TRUE], p, Rejected)
          /\ UNCHANGED networkRequests
    /\ UNCHANGED <<store, cacheHits, cacheMisses>>
    /\ UNCHANGED otherVars

ShouldPutAnyResponse(r) == r # Rejected

\* `if (networkResponse.ok)`: only an ok response is put.
ShouldPut(r) == r # Rejected /\ Ok(r)

\* What fetchPromise resolves to: the network response (an ok one is put,
\* unawaited), or, when the fetch rejects, cachedResponse.
SwrValue(p, r) == IF r = Rejected THEN h[p].cached ELSE r

\* The fetch started by staleWhileRevalidate settles.
SwrSettle(p) ==
    /\ h[p].fetching
    /\ \E n \in NetStates : LET r == FetchResult(p, n)
           v == SwrValue(p, r)
           hh == [h EXCEPT ![p].fetching = FALSE,
                           ![p].live = IF r = Rejected THEN Undefined ELSE r,
                           ![p].put = IF ShouldPut(r) THEN "pending"
                                      ELSE h[p].put]
       IN h' = IF h[p].pc = "swr_wait" THEN Finish(hh, p, v) ELSE hh
    /\ UNCHANGED <<store, faults, cacheHits, cacheMisses, networkRequests>>
    /\ UNCHANGED otherVars

PutSettleKeepsFirst(p) ==
    /\ h[p].put = "pending"
    /\ store' = IF store[PutBucket(h[p].st)][h[p].key] = Undefined
                THEN [store EXCEPT ![PutBucket(h[p].st)][h[p].key] = h[p].live]
                ELSE store
    /\ h' = [h EXCEPT ![p].put = "written"]
    /\ UNCHANGED <<faults, cacheHits, cacheMisses, networkRequests>>
    /\ UNCHANGED otherVars

\* A cache.put in flight settles: the entry is written, or the write fails
\* (nobody awaits it, so the failure is lost).
PutSettle(p) ==
    /\ h[p].put = "pending"
    /\ \/ /\ store' = [store EXCEPT ![PutBucket(h[p].st)][h[p].key] = h[p].live]
          /\ h' = [h EXCEPT ![p].put = "written"]
          /\ UNCHANGED faults
       \/ /\ StorageFault(p)
          /\ h' = [h EXCEPT ![p].put = "failed", ![p].fault = TRUE]
          /\ UNCHANGED store
    /\ UNCHANGED <<cacheHits, cacheMisses, networkRequests>>
    /\ UNCHANGED otherVars

(***************************************************************************)
(* The states of what the fetch strategies leave alone, at rest.           *)
(***************************************************************************)
\* The lifecycle record: state (the ServiceWorker.state of this version),
\* prior (an earlier version was active when this one was installed), active
\* (the registration's active worker: none, prior, this), br (the two
\* branches of install's Promise.all: none, open, adding, done, failed),
\* skipWaiting (self.skipWaiting() was called), listing (activate's
\* caches.keys() is pending), found (the names it gave), todo (the
\* caches.delete calls still pending), claimed (clients.claim() was called).
\* History only: fault (a cache-storage operation of install or activate
\* failed).
LifeAt(state, prior) ==
    [ state |-> state, prior |-> prior,
      active |-> IF state = "activated" THEN "this"
                 ELSE IF prior THEN "prior" ELSE "none",
      br |-> [b \in Buckets |-> IF state = "parsed" THEN "none" ELSE "done"],
      skipWaiting |-> state # "parsed", listing |-> FALSE, found |-> {},
      todo |-> {}, claimed |-> state = "activated", fault |-> FALSE ]

Activated == LifeAt("activated", FALSE)

\* PendingRequest: the records of the object store, keyed by id.
Ids == 1..MaxQueue
Entry(i) == [id |-> i, url |-> "/api/contact", method |-> "POST", body |-> i]
Entries == {Entry(i) : i \in Ids}

\* The execution of syncContactForm: pc (idle, read, fetch, remove, hung,
\* done), requests (what getStoredRequests gave), i (the entry the loop is
\* at), tries (fetches started per id in this run), out (what the replay of
\* an id settled with), events (sync events received).  History only:
\* fault (an IndexedDB operation of this run failed).
IdleSync ==
    [ pc |-> "idle", requests |-> <<>>, i |-> 0,
      tries |-> [x \in Ids |-> 0], out |-> [x \in Ids |-> "none"],
      events |-> 0, fault |-> FALSE ]

\* The contact form of the page: form (idle, sending, sent), online
\* (navigator.onLine when the form was submitted), notification (the last
\* one shown), tags (the sync tags the page has registered).
IdlePage ==
    [ form |-> "idle", online |-> TRUE, notification |-> "none", tags |-> {} ]

\* Nothing has been posted to the port of a metrics request.
NoReply == [posted |-> FALSE]

\* The execution of updateCache: pc (idle, open, keys, fetch, put, done),
\* requests (what cache.keys() gave), i (the request the loop is at), tries
\* (fetches started per key in this run), out (what the refetch of a key
\* settled with), response (the response being put), events (periodicsync
\* events received), tag (the tag of the last one).  History only: listed
\* (cache.keys() resolved), fault (a cache operation of this run failed).
IdleUpdate ==
    [ pc |-> "idle", requests |-> <<>>, i |-> 0,
      tries |-> [k \in Keys |-> 0], out |-> [k \in Keys |-> "none"],
      response |-> Undefined, events |-> 0, tag |-> "",
      listed |-> FALSE, fault |-> FALSE ]

\* The worker active after a successful install: the static bucket holds
\* the manifest (of the model's keys, the root page).
Installed ==
    [b \in AllNames |->
        IF b = STATIC_CACHE THEN [EmptyBucket EXCEPT ![RootPage] = Stored(RootPage)]
        ELSE IF b = DYNAMIC_CACHE THEN [EmptyBucket EXCEPT !["font"] = Stored("font")]
        ELSE EmptyBucket]

Init ==
    /\ store = Installed
    /\ h = <<>>
    /\ faults = 0
    /\ cacheHits = 0
    /\ cacheMisses = 0
    /\ networkRequests = 0
    /\ names = <<STATIC_CACHE, DYNAMIC_CACHE>>
    /\ life = Activated
    /\ queue = {}
    /\ sync = IdleSync
    /\ page = IdlePage
    /\ reply = NoReply
    /\ upd = IdleUpdate

Next ==
    \/ \E k \in Keys : FetchEvent(k)
    \/ \E p \in Handlers : CfMatch(p)
    \/ \E p \in Handlers : CfFetch(p)
    \/ \E p \in Handlers : CfOpen(p)
    \/ \E p \in Handlers : FbMatch(p)
    \/ \E p \in Handlers : PutSettle(p)

Spec == Init /\ [][Next]_vars

(***************************************************************************)
(* The strategies as functions: each is called directly on any request of  *)
(* the model, over caches in any state an earlier session, an eviction or  *)
(* a cleared bucket can leave behind.                                      *)
(***************************************************************************)
Call(st, k) == Len(h) < MaxCalls /\ Start(st, k)

\* A bucket that holds Stored entries for the keys in ks and nothing else.
BucketWith(ks) == [k \in Keys |-> IF k \in ks THEN Stored(k) ELSE Undefined]

InitFn ==
    /\ \E root \in SUBSET {RootPage}, dyn \in SUBSET {"img"} :
          store = [b \in AllNames |->
                     IF b = STATIC_CACHE THEN BucketWith(root)
                     ELSE IF b = DYNAMIC_CACHE THEN BucketWith(dyn)
                     ELSE EmptyBucket]
    /\ h = <<>>
    /\ faults = 0
    /\ cacheHits = 0
    /\ cacheMisses = 0
    /\ networkRequests = 0
    /\ names = <<STATIC_CACHE, DYNAMIC_CACHE>>
    /\ life = Activated
    /\ queue = {}
    /\ sync = IdleSync
    /\ page = IdlePage
    /\ reply = NoReply
    /\ upd = IdleUpdate

NextFn ==
    \/ \E st \in Strategies, k \in Keys : Call(st, k)
    \/ \E p \in Handlers : CfMatch(p)
    \/ \E p \in Handlers : CfFetch(p)
    \/ \E p \in Handlers : CfOpen(p)
    \/ \E p \in Handlers : NfFetch(p)
    \/ \E p \in Handlers : NfOpen(p)
    \/ \E p \in Handlers : NfMatch(p)
    \/ \E p \in Handlers : SwrOpen(p)
    \/ \E p \in Handlers : SwrMatch(p)
    \/ \E p \in Handlers : SwrSettle(p)
    \/ \E p \in Handlers : FbMatch(p)
    \/ \E p \in Handlers : PutSettle(p)

SpecFn == InitFn /\ [][NextFn]_vars

(***************************************************************************)
(* The lifecycle of this version: the install and activate handlers, over  *)
(* a CacheStorage that may hold the buckets of an earlier version, and     *)
(* then the fetch events it serves once activated.                         *)
(***************************************************************************)
NameSet == {names[i] : i \in 1..Len(names)}

\* The keys of the model that cache.addAll of the install handler puts in
\* bucket b (STATIC_ASSETS, EXTERNAL_RESOURCES).
Manifest(b) == IF b = STATIC_CACHE THEN {RootPage} ELSE {"font"}

\* An entry that another version of the worker stored.
OtherStored(k) == [Stored(k) EXCEPT !.by = 0 - 1]

SettleOnFirst(l) ==
    IF l.state # "installing" THEN l
    ELSE IF \E b \in Buckets : l.br[b] = "failed"
         THEN [l EXCEPT !.state = "redundant"]
    ELSE IF \E b \in Buckets : l.br[b] = "done"
         THEN [l EXCEPT !.skipWaiting = TRUE, !.state = "installed"]
    ELSE l

\* Promise.all([...]).then(() => self.skipWaiting()) inside waitUntil: the
\* first branch to reject fails the install (the worker becomes redundant,
\* the other branch runs on); when both are fulfilled skipWaiting is called
\* and the install succeeds.
InstallSettle(l) ==
    IF l.state # "installing" THEN l
    ELSE IF \E b \in Buckets : l.br[b] = "failed"
         THEN [l EXCEPT !.state = "redundant"]
    ELSE IF \A b \in Buckets : l.br[b] = "done"
         THEN [l EXCEPT !.skipWaiting = TRUE, !.state = "installed"]
    ELSE l

\* The install event: both caches.open calls are made.
InstallEvent ==
    /\ life.state = "parsed"
    /\ life' = [life EXCEPT !.state = "installing",
                            !.br = [b \in Buckets |-> "open"]]
    /\ UNCHANGED <<store, h, faults, cacheHits, cacheMisses, networkRequests,
                   names, queue, sync, page, reply>>
    /\ UNCHANGED upd

\* caches.open(b) settles: the bucket exists from now on and cache.addAll
\* starts fetching the manifest; or the open fails.
InstallOpen(b) ==
    /\ life.br[b] = "open"
    /\ \/ /\ names' = IF b \in NameSet THEN names ELSE Append(names, b)
          /\ life' = [life EXCEPT !.br[b] = "adding"]
          /\ UNCHANGED faults
       \/ /\ StorageFault(0)
          /\ life' = InstallSettle([life EXCEPT !.br[b] = "failed",
                                                !.fault = TRUE])
          /\ UNCHANGED names
    /\ UNCHANGED <<store, h, cacheHits, cacheMisses, networkRequests, queue,
                   sync, page, reply>>
    /\ UNCHANGED upd

\* cache.addAll(...) settles: every entry of the list was fetched with an ok
\* status and all are written at once; or one was not (error status or
\* network error), or the write failed, and nothing is written.
InstallAddAll(b) ==
    /\ life.br[b] = "adding"
    /\ \/ /\ \E n \in NetStates :
                IF n = "ok"
                THEN /\ store' = [store EXCEPT ![b] =
                                     [k \in Keys |-> IF k \in Manifest(b)
                                                     THEN Stored(k)
                                                     ELSE store[b][k]]]
                     /\ life' = InstallSettle([life EXCEPT !.br[b] = "done"])
                ELSE /\ life' = InstallSettle([life EXCEPT !.br[b] = "failed"])
                     /\ UNCHANGED store
          /\ UNCHANGED faults
       \/ /\ StorageFault(0)
          /\ life' = InstallSettle([life EXCEPT !.br[b] = "failed",
                                                !.fault = TRUE])
          /\ UNCHANGED store
    /\ UNCHANGED <<h, cacheHits, cacheMisses, networkRequests, names, queue,
                   sync, page, reply>>
    /\ UNCHANGED upd

\* The installed worker is activated when nothing holds it in waiting (no
\* active worker, or skipWaiting was called); the activate handler calls
\* caches.keys().  Otherwise it waits.
ActivateEvent ==
    /\ life.state = "installed"
    /\ life' = IF life.skipWaiting \/ life.active = "none"
               THEN [life EXCEPT !.state = "activating", !.active = "this",
                                 !.listing = TRUE]
               ELSE [life EXCEPT !.state = "waiting"]
    /\ UNCHANGED <<store, h, faults, cacheHits, cacheMisses, networkRequests,
                   names, queue, sync, page, reply>>
    /\ UNCHANGED upd

StaleAny(n) == n # STATIC_CACHE

\* if (cacheName !== STATIC_CACHE && cacheName !== DYNAMIC_CACHE)
Stale(n) == n # STATIC_CACHE /\ n # DYNAMIC_CACHE

ActivateSettleClaims(l, ok) ==
    IF l.state # "activating" THEN l
    ELSE [l EXCEPT !.state = "activated", !.claimed = TRUE]

\* The promise given to waitUntil by the activate handler settles: after
\* the deletions, clients.claim() (ok), or a rejection; either way the
\* worker is activated.
ActivateSettle(l, ok) ==
    IF l.state # "activating" THEN l
    ELSE [l EXCEPT !.state = "activated", !.claimed = ok]

\* caches.keys() settles: caches.delete is called for every stale name.
ActivateKeys ==
    /\ life.listing
    /\ \/ /\ LET todo == {n \in NameSet : Stale(n)}
                 l == [life EXCEPT !.listing = FALSE, !.found = NameSet,
                                   !.todo = todo]
             IN life' = IF todo = {} THEN ActivateSettle(l, TRUE) ELSE l
          /\ UNCHANGED faults
       \/ /\ StorageFault(0)
          /\ life' = ActivateSettle([life EXCEPT !.listing = FALSE,
                                                 !.fault = TRUE], FALSE)
    /\ UNCHANGED <<store, h, cacheHits, cacheMisses, networkRequests, names,
                   queue, sync, page, reply>>
    /\ UNCHANGED upd

\* caches.delete(n) settles: the bucket is gone with its entries; or the
\* delete fails, which rejects the Promise.all (the other deletions run on).
ActivateDelete(n) ==
    /\ n \in life.todo
    /\ \/ /\ names' = SelectSeq(names, LAMBDA x : x # n)
          /\ store' = [store EXCEPT ![n] = EmptyBucket]
          /\ LET l == [life EXCEPT !.todo = life.todo \ {n}]
             IN life' = IF l.todo = {} THEN ActivateSettle(l, TRUE) ELSE l
          /\ UNCHANGED faults
       \/ /\ StorageFault(0)
          /\ life' = ActivateSettle([life EXCEPT !.todo = life.todo \ {n},
                                                 !.fault = TRUE], FALSE)
          /\ UNCHANGED <<names, store>>
    /\ UNCHANGED <<h, cacheHits, cacheMisses, networkRequests, queue, sync,
                   page, reply>>
    /\ UNCHANGED upd

\* Fetch events reach this version once it is activated.
Serve(k) ==
    /\ life.state = "activated"
    /\ Len(h) < MaxServed
    /\ Start(Dispatch(Url[k]), k)

\* A bucket of another version: the entries it holds for the keys in ks.
OtherBucket(ks) == [k \in Keys |-> IF k \in ks THEN OtherStored(k) ELSE Undefined]

InitLife ==
    /\ \E old \in SUBSET OldNames :
          /\ store = [b \in AllNames |->
                        IF b \in old THEN OtherBucket({RootPage}) ELSE EmptyBucket]
          /\ names = SelectSeq(<<"static-v1", "dynamic-v1">>,
                               LAMBDA x : x \in old)
    /\ \E prior \in BOOLEAN : life = LifeAt("parsed", prior)
    /\ h = <<>>
    /\ faults = 0
    /\ cacheHits = 0
    /\ cacheMisses = 0
    /\ networkRequests = 0
    /\ queue = {}
    /\ sync = IdleSync
    /\ page = IdlePage
    /\ reply = NoReply
    /\ upd = IdleUpdate

NextLife ==
    \/ InstallEvent
    \/ \E b \in Buckets : InstallOpen(b)
    \/ \E b \in Buckets : InstallAddAll(b)
    \/ ActivateEvent
    \/ ActivateKeys
    \/ \E n \in AllNames : ActivateDelete(n)
    \/ \E k \in Keys : Serve(k)
    \/ \E p \in Handlers : CfMatch(p)
    \/ \E p \in Handlers : CfFetch(p)
    \/ \E p \in Handlers : CfOpen(p)
    \/ \E p \in Handlers : FbMatch(p)
    \/ \E p \in Handlers : PutSettle(p)

SpecLife == InitLife /\ [][NextLife]_vars

(***************************************************************************)
(* The overlap of two versions: this version active and serving while the  *)
(* bucket of the version being installed next is in the CacheStorage.      *)
(***************************************************************************)
InitOverlap ==
    /\ \E ks \in SUBSET {RootPage, "about"} :
          store = [b \in AllNames |->
                     IF b \in NextNames THEN OtherBucket(ks) ELSE Installed[b]]
    /\ names = <<STATIC_CACHE, DYNAMIC_CACHE, "static-v3">>
    /\ life = Activated
    /\ h = <<>>
    /\ faults = 0
    /\ cacheHits = 0
    /\ cacheMisses = 0
    /\ networkRequests = 0
    /\ queue = {}
    /\ sync = IdleSync
    /\ page = IdlePage
    /\ reply = NoReply
    /\ upd = IdleUpdate

SpecOverlap == InitOverlap /\ [][Next]_vars

(***************************************************************************)
(* Fetch events of any method.                                             *)
(***************************************************************************)
Methods == {"GET", "POST"}

InterceptedAny(method) == TRUE

\* if (request.method !== 'GET') { return; }
Intercepted(method) == method = "GET"

\* The fetch listener for a request of any method: an intercepted request
\* goes to the strategy of its category; for another the listener returns
\* without calling respondWith, and the event is over for the worker.
FetchEventOf(k, method) ==
    /\ Len(h) < MaxEvents
    /\ LET st == IF Intercepted(method) THEN Dispatch(Url[k]) ELSE "none" IN
          /\ h' = Append(h, Run(st, k, method))
          /\ networkRequests' = IF st = NETWORK_FIRST THEN networkRequests + 1
                                ELSE networkRequests
    /\ UNCHANGED <<store, faults, cacheHits, cacheMisses>>
    /\ UNCHANGED otherVars

NextReq ==
    \/ \E k \in Keys, method \in Methods : FetchEventOf(k, method)
    \/ \E p \in Handlers : CfMatch(p)
    \/ \E p \in Handlers : CfFetch(p)
    \/ \E p \in Handlers : CfOpen(p)
    \/ \E p \in Handlers : FbMatch(p)
    \/ \E p \in Handlers : PutSettle(p)

SpecReq == Init /\ [][NextReq]_vars

(***************************************************************************)
(* The message channel: a request for the performance metrics.             *)
(***************************************************************************)
MessageTypes == {"GET_PERFORMANCE_METRICS", "other"}

\* The values a metrics record can hold: a number, or a promise.
Number(x) == [number |-> x]
PendingPromise == [promise |-> "pending"]

\* getCacheHitRatio(): (cacheHits / total) * 100 as the fraction
\* <<numerator, denominator>>, 0 when nothing was counted.
getCacheHitRatio ==
    LET total == cacheHits + cacheMisses
    IN IF total > 0 THEN Number(<<cacheHits * 100, total>>) ELSE Number(<<0, 1>>)

\* getCacheSize() is an async function: the call returns a promise, which
\* the listener does not await.
getCacheSize == PendingPromise

getNetworkRequestCount == Number(networkRequests)

\* The structured clone of postMessage: a promise cannot be cloned, and a
\* record that holds one makes postMessage throw DataCloneError.
Cloneable(rec) == \A f \in DOMAIN rec : "promise" \notin DOMAIN rec[f]

\* self.addEventListener('message', ...): for GET_PERFORMANCE_METRICS the
\* record is built and posted to event.ports[0]; any other message is
\* ignored.
MessageEvent(type) ==
    /\ LET metrics == [ cacheHitRatio |-> getCacheHitRatio,
                        cacheSize |-> getCacheSize,
                        networkRequests |-> getNetworkRequestCount ]
       IN reply' = IF type # "GET_PERFORMANCE_METRICS" THEN reply
                   ELSE IF Cloneable(metrics)
                   THEN [posted |-> TRUE, data |-> metrics]
                   ELSE [posted |-> FALSE, error |-> "DataCloneError"]
    /\ UNCHANGED <<store, h, faults, cacheHits, cacheMisses, networkRequests,
                   names, life, queue, sync, page>>
    /\ UNCHANGED upd

NextMsg ==
    \/ \E k \in Keys : FetchEvent(k)
    \/ \E p \in Handlers : CfMatch(p)
    \/ \E p \in Handlers : CfFetch(p)
    \/ \E p \in Handlers : CfOpen(p)
    \/ \E p \in Handlers : FbMatch(p)
    \/ \E p \in Handlers : PutSettle(p)
    \/ \E type \in MessageTypes : MessageEvent(type)

SpecMsg == Init /\ [][NextMsg]_vars

(***************************************************************************)
(* Background sync: the 'sync' listener and syncContactForm, over a queue  *)
(* in any state, and the page script's contact form.                       *)
(***************************************************************************)
SyncTags == {"contact-form", "other"}

\* IDBObjectStore.getAll(): the records in ascending key order.
RECURSIVE GetAll(_)
GetAll(q) ==
    IF q = {} THEN <<>>
    ELSE LET e == CHOOSE x \in q : \A y \in q : x.id <= y.id
         IN <<e>> \o GetAll(q \ {e})

\* The loop of syncContactForm reaches entry i: its replay fetch is started
\* (through the counting wrapper of fetch), or the loop is over.
LoopAt(s, i) ==
    IF i > Len(s.requests) THEN [s EXCEPT !.pc = "done", !.i = i]
    ELSE [s EXCEPT !.pc = "fetch", !.i = i,
                   !.tries[s.requests[i].id] = s.tries[s.requests[i].id] + 1]

\* The wrapper of fetch counts the replay that LoopAt starts.
CountReplay(s) ==
    networkRequests' = IF s.pc = "fetch" THEN networkRequests + 1
                       ELSE networkRequests

\* self.addEventListener('sync', ...): only the tag 'contact-form' starts
\* syncContactForm, which runs to its first await.
SyncEvent(tag) ==
    /\ sync.pc \in {"idle", "done"}
    /\ sync.events < MaxSyncs
    /\ sync' = IF tag = "contact-form"
               THEN [IdleSync EXCEPT !.pc = "read", !.events = sync.events + 1]
               ELSE [sync EXCEPT !.events = sync.events + 1]
    /\ UNCHANGED <<store, h, faults, cacheHits, cacheMisses, networkRequests,
                   names, life, queue, page, reply>>
    /\ UNCHANGED upd

\* await getStoredRequests(): the entries of the store, or (the open or the
\* getAll failing) a rejection that the outer catch logs.
SyncRead ==
    /\ sync.pc = "read"
    /\ \/ /\ sync' = LoopAt([sync EXCEPT !.requests = GetAll(queue)], 1)
          /\ CountReplay(sync')
          /\ UNCHANGED faults
       \/ /\ StorageFault(0)
          /\ sync' = [sync EXCEPT !.pc = "done", !.fault = TRUE]
          /\ UNCHANGED networkRequests
    /\ UNCHANGED <<store, h, cacheHits, cacheMisses, names, life, queue, page,
                   reply>>
    /\ UNCHANGED upd

ResolvedOnlyOk(n) == n = "ok"

\* await fetch(...) of a replay resolves (with whatever status) unless the
\* network is down.
Resolved(n) == n # "down"

SyncReplayAborts ==
    /\ sync.pc = "fetch"
    /\ \E n \in NetStates :
          LET s == [sync EXCEPT !.out[sync.requests[sync.i].id] = n] IN
          /\ sync' = IF Resolved(n) THEN [s EXCEPT !.pc = "remove"]
                     ELSE [s EXCEPT !.pc = "done"]
          /\ CountReplay(sync')
    /\ UNCHANGED <<store, h, faults, cacheHits, cacheMisses, names, life,
                   queue, page, reply>>
    /\ UNCHANGED upd

\* await fetch(request.url, ...) settles: resolved, the entry goes on to be
\* removed; rejected, the inner catch logs and the loop goes on.
SyncReplay ==
    /\ sync.pc = "fetch"
    /\ \E n \in NetStates :
          LET s == [sync EXCEPT !.out[sync.requests[sync.i].id] = n] IN
          /\ sync' = IF Resolved(n) THEN [s EXCEPT !.pc = "remove"]
                     ELSE LoopAt(s, sync.i + 1)
          /\ CountReplay(sync')
    /\ UNCHANGED <<store, h, faults, cacheHits, cacheMisses, names, life,
                   queue, page, reply>>
    /\ UNCHANGED upd

\* await removeStoredRequest(request.id): the record is deleted; or the
\* delete fails and the inner catch logs; or the open fails, for which no
\* handler is set, so the promise never settles and the run stands still.
SyncRemove ==
    /\ sync.pc = "remove"
    /\ \/ /\ queue' = {e \in queue : e.id # sync.requests[sync.i].id}
          /\ sync' = LoopAt(sync, sync.i + 1)
          /\ CountReplay(sync')
          /\ UNCHANGED faults
       \/ /\ StorageFault(0)
          /\ sync' = LoopAt([sync EXCEPT !.fault = TRUE], sync.i + 1)
          /\ CountReplay(sync')
          /\ UNCHANGED queue
       \/ /\ StorageFault(0)
          /\ sync' = [sync EXCEPT !.fault = TRUE, !.pc = "hung"]
          /\ UNCHANGED <<queue, networkRequests>>
    /\ UNCHANGED <<store, h, cacheHits, cacheMisses, names, life, page, reply>>
    /\ UNCHANGED upd

\* submitForm(data, form) of the page script: the button is disabled and a
\* timer of two seconds is set; nothing is sent, stored or registered.
submitForm(online) ==
    /\ page.form # "sending"
    /\ page' = [page EXCEPT !.form = "sending", !.online = online]
    /\ UNCHANGED <<store, h, faults, cacheHits, cacheMisses, networkRequests,
                   names, life, queue, sync, reply>>
    /\ UNCHANGED upd

\* The timer fires: the success notification, the form reset.
SubmitTimer ==
    /\ page.form = "sending"
    /\ page' = [page EXCEPT !.form = "sent", !.notification = "success"]
    /\ UNCHANGED <<store, h, faults, cacheHits, cacheMisses, networkRequests,
                   names, life, queue, sync, reply>>
    /\ UNCHANGED upd

InitSync ==
    /\ store = Installed
    /\ h = <<>>
    /\ faults = 0
    /\ cacheHits = 0
    /\ cacheMisses = 0
    /\ networkRequests = 0
    /\ names = <<STATIC_CACHE, DYNAMIC_CACHE>>
    /\ life = Activated
    /\ queue \in SUBSET Entries
    /\ sync = IdleSync
    /\ page = IdlePage
    /\ reply = NoReply
    /\ upd = IdleUpdate

NextSync ==
    \/ \E tag \in SyncTags : SyncEvent(tag)
    \/ SyncRead
    \/ SyncReplay
    \/ SyncRemove
    \/ \E online \in BOOLEAN : submitForm(online)
    \/ SubmitTimer

SpecSync == InitSync /\ [][NextSync]_vars

(***************************************************************************)
(* Periodic background sync: the 'periodicsync' listener and updateCache,  *)
(* over a dynamic bucket in any state, while the strategies serve requests.*)
(***************************************************************************)
PeriodicTags == {"cache-update", "other"}

\* What fetch(request) of update run r settles with for key k when the
\* network is in state n.
Refetched(k, r, n) ==
    IF n = "ok" THEN Live(k, 0 - r, 200)
    ELSE IF n = "bad" THEN Live(k, 0 - r, 500)
    ELSE Rejected

UpdatePutsAny(r) == TRUE

\* if (response.ok) of updateCache.
UpdatePuts(r) == Ok(r)

\* The keys a bucket holds.
KeysOf(b) == {k \in Keys : b[k] # Undefined}

\* The orders in which cache.keys() can list the keys ks (the order of
\* insertion, which the buckets of the model do not record).
Listings(ks) ==
    {q \in [1..Cardinality(ks) -> ks] : \A i, j \in DOMAIN q : q[i] = q[j] => i = j}

\* The loop of updateCache reaches request i: its fetch is started, or the
\* loop is over.
UpdateLoopAt(u, i) ==
    IF i > Len(u.requests)
    THEN [u EXCEPT !.pc = "done", !.i = i, !.response = Undefined]
    ELSE [u EXCEPT !.pc = "fetch", !.i = i, !.response = Undefined,
                   !.tries[u.requests[i]] = u.tries[u.requests[i]] + 1]

\* The wrapper of fetch counts the refetch that UpdateLoopAt starts.
CountRefetch(u) ==
    networkRequests' = IF u.pc = "fetch" THEN networkRequests + 1
                       ELSE networkRequests

\* self.addEventListener('periodicsync', ...): only the tag 'cache-update'
\* starts updateCache, which runs to its first await.
PeriodicSyncEvent(tag) ==
    /\ upd.pc \in {"idle", "done"}
    /\ Len(h) + upd.events < MaxEvents
    /\ upd' = IF tag = "cache-update"
              THEN [IdleUpdate EXCEPT !.pc = "open", !.tag = tag,
                                      !.events = upd.events + 1]
              ELSE [upd EXCEPT !.tag = tag, !.events = upd.events + 1]
    /\ UNCHANGED <<store, h, faults, cacheHits, cacheMisses, networkRequests,
                   names, life, queue, sync, page, reply>>

\* await caches.open(DYNAMIC_CACHE): the bucket, or a rejection that the
\* outer catch logs.
UpdateOpen ==
    /\ upd.pc = "open"
    /\ \/ /\ upd' = [upd EXCEPT !.pc = "keys"]
          /\ UNCHANGED faults
       \/ /\ StorageFault(0)
          /\ upd' = [upd EXCEPT !.pc = "done", !.fault = TRUE]
    /\ UNCHANGED <<store, h, cacheHits, cacheMisses, networkRequests, names,
                   life, queue, sync, page, reply>>

\* await cache.keys(): the requests of the bucket, and the loop starts; or
\* a rejection that the outer catch logs.
UpdateKeys ==
    /\ upd.pc = "keys"
    /\ \/ /\ \E q \in Listings(KeysOf(store[DYNAMIC_CACHE])) :
                upd' = UpdateLoopAt([upd EXCEPT !.requests = q,
                                                !.listed = TRUE], 1)
          /\ CountRefetch(upd')
          /\ UNCHANGED faults
       \/ /\ StorageFault(0)
          /\ upd' = [upd EXCEPT !.pc = "done", !.fault = TRUE]
          /\ UNCHANGED networkRequests
    /\ UNCHANGED <<store, h, cacheHits, cacheMisses, names, life, queue, sync,
                   page, reply>>

UpdateFetchStopsOnFailure ==
    /\ upd.pc = "fetch"
    /\ \E n \in NetStates :
          LET k == upd.requests[upd.i]
              r == Refetched(k, upd.events, n)
              u == [upd EXCEPT !.out[k] = n]
          IN  /\ upd' = IF r = Rejected THEN [u EXCEPT !.pc = "done"]
                        ELSE IF UpdatePuts(r)
                        THEN [u EXCEPT !.pc = "put", !.response = r]
                        ELSE UpdateLoopAt(u, upd.i + 1)
              /\ CountRefetch(upd')
    /\ UNCHANGED <<store, h, faults, cacheHits, cacheMisses, names, life,
                   queue, sync, page, reply>>

\* await fetch(request): an ok response goes on to the put; another
\* response is dropped; a rejection is logged by the inner catch; in both of
\* these the loop goes on with the next request.
UpdateFetch ==
    /\ upd.pc = "fetch"
    /\ \E n \in NetStates :
          LET k == upd.requests[upd.i]
              r == Refetched(k, upd.events, n)
              u == [upd EXCEPT !.out[k] = n]
          IN  /\ upd' = IF r # Rejected /\ UpdatePuts(r)
                        THEN [u EXCEPT !.pc = "put", !.response = r]
                        ELSE UpdateLoopAt(u, upd.i + 1)
              /\ CountRefetch(upd')
    /\ UNCHANGED <<store, h, faults, cacheHits, cacheMisses, names, life,
                   queue, sync, page, reply>>

\* await cache.put(request, response): the entry is replaced; or the put
\* fails and the inner catch logs; the loop goes on.
UpdatePut ==
    /\ upd.pc = "put"
    /\ \/ /\ store' = [store EXCEPT
                         ![DYNAMIC_CACHE][upd.requests[upd.i]] = upd.response]
          /\ upd' = UpdateLoopAt(upd, upd.i + 1)
          /\ UNCHANGED faults
       \/ /\ StorageFault(0)
          /\ upd' = UpdateLoopAt([upd EXCEPT !.fault = TRUE], upd.i + 1)
          /\ UNCHANGED store
    /\ CountRefetch(upd')
    /\ UNCHANGED <<h, cacheHits, cacheMisses, names, life, queue, sync, page,
                   reply>>

\* The requests served while updates run: one for a key that the dynamic
\* bucket can hold already, one for a key that it does not hold.
RequestKeys == {"img", "api"}

\* A strategy is called on a request while updates run, once the calls
\* before it have returned (their writes may still be under way).
Request(st, k) ==
    /\ Len(h) + upd.events < MaxEvents
    /\ \A p \in Handlers : Done(p)
    /\ Start(st, k)

InitUpdate ==
    /\ \E dyn \in SUBSET {"font", "img"} :
          store = [b \in AllNames |->
                     IF b = STATIC_CACHE THEN BucketWith({RootPage})
                     ELSE IF b = DYNAMIC_CACHE THEN BucketWith(dyn)
                     ELSE EmptyBucket]
    /\ h = <<>>
    /\ faults = 0
    /\ cacheHits = 0
    /\ cacheMisses = 0
    /\ networkRequests = 0
    /\ names = <<STATIC_CACHE, DYNAMIC_CACHE>>
    /\ life = Activated
    /\ queue = {}
    /\ sync = IdleSync
    /\ page = IdlePage
    /\ reply = NoReply
    /\ upd = IdleUpdate

NextUpdate ==
    \/ \E tag \in PeriodicTags : PeriodicSyncEvent(tag)
    \/ UpdateOpen
    \/ UpdateKeys
    \/ UpdateFetch
    \/ UpdatePut
    \/ \E st \in Strategies, k \in RequestKeys : Request(st, k)
    \/ \E p \in Handlers : CfMatch(p)
    \/ \E p \in Handlers : CfFetch(p)
    \/ \E p \in Handlers : CfOpen(p)
    \/ \E p \in Handlers : NfFetch(p)
    \/ \E p \in Handlers : NfOpen(p)
    \/ \E p \in Handlers : NfMatch(p)
    \/ \E p \in Handlers : SwrOpen(p)
    \/ \E p \in Handlers : SwrMatch(p)
    \/ \E p \in Handlers : SwrSettle(p)
    \/ \E p \in Handlers : PutSettle(p)

SpecUpdate == InitUpdate /\ [][NextUpdate]_vars

(***************************************************************************)
(* Properties                                                              *)
(***************************************************************************)
CacheFirstRuns == {p \in Handlers : h[p].st = CACHE_FIRST}
NetworkFirstRuns == {p \in Handlers : h[p].st = NETWORK_FIRST}
SwrRuns == {p \in Handlers : h[p].st = STALE_WHILE_REVALIDATE}

\* The URL names a file of the manifest or carries a static extension (the
\* bare '/' entry, which every absolute URL contains, left aside).
NamesStaticFile(url) ==
    \/ \E i \in 2..Len(STATIC_ASSETS) : Includes(url, STATIC_ASSETS[i])
    \/ Includes(url, <<".css">>)
    \/ Includes(url, <<".js">>)
    \/ Includes(url, <<".html">>)

\* r is what the offline-fallback policy may give the request with key k.
IsFallbackFor(r, k) ==
    IF Dest[k] = "document" THEN r = Undefined \/ r.key = RootPage
    ELSE IF Dest[k] = "image" THEN r = Placeholder
    ELSE r = Offline503

\* The live fetch of p was rejected (network error): p fetched and holds no
\* network response.
FetchRejected(p) ==
    h[p].fetches = 1 /\ ~h[p].fetching /\ h[p].live = Undefined
    /\ h[p].pc \notin {"cf_fetch", "nf_fetch"}

\* C1: every intercepted GET request is handed to the strategy of its URL's
\* category: static file -> cache-first, allow-listed external host ->
\* stale-while-revalidate, API/data URL -> network-first, other -> cache-first.
C1_StrategyByCategory ==
    \A p \in Handlers :
        LET u == Url[h[p].key] IN
        h[p].st = IF NamesStaticFile(u) THEN CACHE_FIRST
                  ELSE IF isExternalResource(u) THEN STALE_WHILE_REVALIDATE
                  ELSE IF isAPIRequest(u) THEN NETWORK_FIRST
                  ELSE CACHE_FIRST

\* C2: once a cache-first request has completed with a successful live
\* fetch, a later identical request (one whose event arrives after that
\* completion) is answered from the cache and starts no live fetch.
C2_SecondRequestFromCache ==
    \A p \in CacheFirstRuns, q \in CacheFirstRuns :
        ( /\ p \in h[q].after
          /\ h[q].key = h[p].key
          /\ Ok(h[p].live) /\ h[p].resp = h[p].live
          /\ ~h[p].fault /\ ~h[q].fault )
        => /\ h[q].fetches = 0
           /\ (Done(q) => h[q].resp = h[p].live)

\* C3: one execution of cacheFirst starts no live fetch when the combined
\* cache lookup finds an entry (the hit is returned as it is), and at most
\* one live fetch, after the lookup, when it misses.
C3_FetchOnlyOnMiss ==
    \A p \in CacheFirstRuns :
        /\ h[p].fetches <= 1
        /\ (h[p].cached # Undefined =>
                h[p].fetches = 0 /\ Done(p) /\ h[p].resp = h[p].cached)
        /\ (h[p].fetches = 1 => h[p].looked /\ h[p].cached = Undefined)

C3_Witness ==
    \E p \in CacheFirstRuns, q \in CacheFirstRuns :
        /\ Done(p) /\ h[p].cached # Undefined /\ h[p].fetches = 0
        /\ Done(q) /\ h[q].looked /\ h[q].cached = Undefined /\ h[q].fetches = 1

\* C4: on a cache-first miss whose live fetch succeeds (an ok response; the
\* cache storage working), the fetched response is the one returned and its
\* copy is written to the static bucket under the request's key, no other
\* entry of any bucket changing; when the live fetch fails (is rejected),
\* the result is the one of the offline-fallback policy.
C4_Returned ==
    \A p \in CacheFirstRuns :
        (Done(p) /\ ~h[p].fault) =>
            /\ (h[p].live # Undefined /\ Ok(h[p].live)) =>
                   h[p].resp = h[p].live /\ h[p].put \in {"pending", "written"}
            /\ FetchRejected(p) =>
                   h[p].fellBack /\ IsFallbackFor(h[p].resp, h[p].key)

C4_Written ==
    \A p \in CacheFirstRuns :
        (h[p].put = "pending" /\ h'[p].put = "written") =>
            /\ Ok(h[p].live)
            /\ store' = [store EXCEPT ![STATIC_CACHE][h[p].key] = h[p].live]

FetchNotOk(p) == h[p].live # Undefined /\ ~Ok(h[p].live)

\* r was in a cache before p's own live fetch could have produced it.
PreviouslyCached(r, p) == r.kind = "cached" \/ (r.kind = "live" /\ r.by # p)

\* C5: in networkFirst, when the live fetch fails by a network
\* error or by returning a non-success status, the cached entry for the
\* request is returned if one exists, and the offline fallback only when
\* none exists.
C5_CacheOnAnyFailure ==
    \A p \in NetworkFirstRuns :
        (Done(p) /\ ~h[p].fault /\ (FetchRejected(p) \/ FetchNotOk(p))) =>
            LET c == IF h[p].looked THEN h[p].cached
                     ELSE CachesMatch(store, h[p].key)
            IN IF c # Undefined THEN h[p].resp = c
               ELSE IsFallbackFor(h[p].resp, h[p].key)

\* C6: a GET request for an API/data URL is answered with the response of
\* its own live fetch whenever that fetch succeeds, and with a previously
\* cached response only when its live fetch was made and failed.
C6_ApiResponseIsLive ==
    \A p \in Handlers :
        (Done(p) /\ ~h[p].fault /\ isAPIRequest(Url[h[p].key])) =>
            /\ (h[p].live # Undefined /\ Ok(h[p].live)) => h[p].resp = h[p].live
            /\ PreviouslyCached(h[p].resp, p) =>
                   (FetchRejected(p) \/ FetchNotOk(p))

\* C7: in staleWhileRevalidate, when the dynamic bucket holds an entry for
\* the request, that entry is returned at the lookup, with the live fetch
\* started and still pending, and the response returned stays that entry
\* whatever the fetch settles with.
C7_Returned ==
    \A p \in SwrRuns :
        (h[p].looked /\ h[p].cached # Undefined) =>
            Done(p) /\ h[p].resp = h[p].cached /\ h[p].fetches = 1

C7_Lookup ==
    \A p \in SwrRuns :
        /\ ( /\ h[p].pc = "swr_match" /\ h'[p].pc # "swr_match"
             /\ ~h'[p].fault
             /\ store[DYNAMIC_CACHE][h[p].key] # Undefined )
           => /\ h'[p].pc = "done" /\ h'[p].fetching
              /\ h'[p].resp = store[DYNAMIC_CACHE][h[p].key]
        /\ Done(p) => h'[p].resp = h[p].resp

C7_NoWaitOnHit == [](C7_Returned) /\ [][C7_Lookup]_vars

C7_Witness ==
    \E p \in SwrRuns :
        /\ Done(p) /\ h[p].fetching
        /\ h[p].resp = Stored(h[p].key)
        /\ store[DYNAMIC_CACHE][h[p].key] = h[p].resp

\* C8: in staleWhileRevalidate, when no cached entry exists the function
\* waits for the live fetch and returns its result, and when that fetch
\* fails it returns the offline fallback for the request.
C8_MissWaitsOrFallsBack ==
    \A p \in SwrRuns :
        (Done(p) /\ ~h[p].fault /\ h[p].looked /\ h[p].cached = Undefined) =>
            /\ ~h[p].fetching
            /\ h[p].live # Undefined => h[p].resp = h[p].live
            /\ FetchRejected(p) => IsFallbackFor(h[p].resp, h[p].key)

\* C9: in staleWhileRevalidate with a cached entry, when the background
\* fetch fails (network error or non-success status), the response returned
\* is the cached one, no cache entry changes and no write is started.
C9_FailedSettle ==
    \A p \in SwrRuns :
        ( /\ h[p].cached # Undefined
          /\ h[p].fetching /\ ~h'[p].fetching
          /\ ~(h'[p].live # Undefined /\ Ok(h'[p].live)) )
        => /\ store' = store
           /\ h'[p].resp = h[p].cached
           /\ h'[p].put = "none"

C9_AfterFailure ==
    \A p \in SwrRuns :
        ( /\ h[p].looked /\ h[p].cached # Undefined /\ ~h[p].fetching
          /\ (FetchRejected(p) \/ FetchNotOk(p)) )
        => h[p].put = "none" /\ h[p].resp = h[p].cached

C9_FailedRefreshKeepsEntry == [](C9_AfterFailure) /\ [][C9_FailedSettle]_vars

C9_Witness ==
    \E p \in SwrRuns :
        /\ h[p].cached = Stored(h[p].key) /\ ~h[p].fetching
        /\ FetchNotOk(p)
        /\ h[p].resp = h[p].cached
        /\ store[DYNAMIC_CACHE][h[p].key] = h[p].cached

\* C10: getOfflineFallback for a request whose destination is a document
\* returns the cached root page when it is in the cache, and a minimal
\* offline-indicator response (some response object) when it is not.
C10_Lookup ==
    \A p \in Handlers :
        ( /\ h[p].pc = "fb_match" /\ h'[p].pc = "done" /\ ~h'[p].fault
          /\ Dest[h[p].key] = "document" )
        => LET c == CachesMatch(store, RootPage) IN
           IF c # Undefined THEN h'[p].resp = c
           ELSE h'[p].resp \notin {Undefined, Rejected}

C10_DocumentFallback == [][C10_Lookup]_vars

\* C11: a request whose destination is an image, with no cached entry and a
\* rejected live fetch, is answered with the generated placeholder (success
\* status, image content type); one whose destination is neither document
\* nor image is answered with status 503.
C11_ImagePlaceholderElse503 ==
    \A p \in Handlers :
        ( /\ Done(p) /\ ~h[p].fault
          /\ h[p].looked /\ h[p].cached = Undefined /\ FetchRejected(p) )
        => IF Dest[h[p].key] = "image"
           THEN /\ h[p].resp.kind = "generated" /\ Ok(h[p].resp)
                /\ h[p].resp.ctype = "image/svg+xml"
           ELSE Dest[h[p].key] # "document" => h[p].resp.status = 503

C11_Witness ==
    \E p \in Handlers, q \in Handlers :
        /\ Done(p) /\ Dest[h[p].key] = "image" /\ FetchRejected(p)
        /\ h[p].cached = Undefined /\ h[p].resp = Placeholder
        /\ Done(q) /\ Dest[h[q].key] = "" /\ FetchRejected(q)
        /\ h[q].cached = Undefined /\ h[q].resp = Offline503

\* C12: every intercepted GET request is answered with some response
\* object, for every strategy, destination, cache content and live-fetch
\* outcome: the promise handed to respondWith never settles with a missing
\* value or a rejection (cache storage working).
C12_AlwaysSomeResponse ==
    \A p \in Handlers :
        (Done(p) /\ ~h[p].fault) => h[p].resp \notin {Undefined, Rejected}

\* The entries the loop of the sync run has finished with.
Passed == {sync.requests[j] : j \in 1..Len(sync.requests) \cap 1..(sync.i - 1)}
InQueue(id) == \E x \in queue : x.id = id

\* C13: a PendingRequest that the sync run read is absent from the queue
\* once its replay has succeeded (an ok reply, the store working), and is
\* still in the queue, the same record, once its replay has failed (the
\* fetch rejected, or answered with an error status); so it is at the end
\* of the run.
C13_RemovedIffReplayed ==
    \A e \in Passed :
        /\ (sync.out[e.id] = "ok" /\ ~sync.fault) => ~InQueue(e.id)
        /\ sync.out[e.id] \in {"bad", "down"} => e \in queue

\* C14: in one sync run every PendingRequest read is replayed exactly once:
\* no entry is fetched twice, a rejected replay starts the replay of the
\* next entry in the same step, and at the end of the run every entry read
\* has been replayed once and those replayed with success are deleted.
C14_Once ==
    /\ \A x \in Ids : sync.tries[x] <= 1
    /\ (sync.pc = "done" /\ ~sync.fault) =>
           \A j \in 1..Len(sync.requests) :
               LET e == sync.requests[j] IN
               /\ sync.tries[e.id] = 1 /\ sync.out[e.id] # "none"
               /\ sync.out[e.id] = "ok" => ~InQueue(e.id)

C14_Rejected ==
    ( /\ sync.pc = "fetch" /\ sync' # sync
      /\ sync'.out[sync.requests[sync.i].id] = "down"
      /\ sync.i < Len(sync.requests) )
    => /\ sync'.pc = "fetch" /\ sync'.i = sync.i + 1
       /\ sync'.tries[sync.requests[sync.i + 1].id] = 1

C14_ReplaysIndependent == [](C14_Once) /\ [][C14_Rejected]_vars

C14_Witness ==
    /\ sync.pc = "done" /\ Len(sync.requests) = 2
    /\ sync.out[sync.requests[1].id] = "down" /\ sync.requests[1] \in queue
    /\ sync.out[sync.requests[2].id] = "ok" /\ ~InQueue(sync.requests[2].id)
    /\ \A j \in 1..2 : sync.tries[sync.requests[j].id] = 1

\* C15: when the page script's submission of the contact form completes
\* without connectivity, the page script has added a PendingRequest to the
\* queue and registered the sync tag 'contact-form'.
C15_Submitted ==
    (page.form = "sending" /\ page'.form = "sent" /\ ~page.online)
    => /\ queue' \ queue # {}
       /\ "contact-form" \in page'.tags

C15_OfflineSubmissionQueued == [][C15_Submitted]_vars

\* C16: if populating either bucket fails during install, the install fails
\* and this version never activates nor replaces the worker that was active;
\* skipWaiting has been called only when both buckets exist and hold their
\* manifest.
C16_FailedInstallNeverActivates ==
    /\ (\E b \in Buckets : life.br[b] = "failed") =>
           /\ life.state = "redundant"
           /\ ~life.skipWaiting /\ ~life.claimed
           /\ life.active = IF life.prior THEN "prior" ELSE "none"
    /\ life.skipWaiting =>
           \A b \in Buckets :
               /\ life.br[b] = "done" /\ b \in NameSet
               /\ \A k \in Manifest(b) : store[b][k] # Undefined

C16_Witness ==
    /\ life.state = "redundant" /\ life.prior /\ life.active = "prior"
    /\ life.br[STATIC_CACHE] = "done" /\ life.br[DYNAMIC_CACHE] = "failed"
    /\ ~life.skipWaiting

\* C17: when the install has failed, neither the static nor the dynamic
\* bucket of this version has gained any entry.
C17_InstallAtomic ==
    life.state = "redundant" => \A b \in Buckets : store[b] = EmptyBucket

\* C18: once activation has completed (cache storage working), the buckets
\* that exist are exactly the current static and dynamic bucket; a step
\* removes a bucket only if its name is not a current one and activation
\* asked for its deletion, and no step of activation changes an entry of the
\* current two.
C18_After ==
    (life.state = "activated" /\ ~life.fault) =>
        /\ NameSet = {STATIC_CACHE, DYNAMIC_CACHE}
        /\ \A n \in AllNames \ NameSet : store[n] = EmptyBucket

C18_Step ==
    /\ \A n \in NameSet \ {names'[i] : i \in 1..Len(names')} :
           n \notin {STATIC_CACHE, DYNAMIC_CACHE} /\ n \in life.todo
    /\ life.state = "activating" =>
           \A b \in {STATIC_CACHE, DYNAMIC_CACHE} : store'[b] = store[b]

C18_DeletesExactlyStale == [](C18_After) /\ [][C18_Step]_vars

C18_Witness ==
    /\ life.state = "activated" /\ ~life.fault /\ life.claimed
    /\ OldNames \subseteq life.found
    /\ NameSet = {STATIC_CACHE, DYNAMIC_CACHE}
    /\ \A b \in Buckets : \A k \in Manifest(b) : store[b][k] = Stored(k)
    /\ h = <<>>

\* C19: two versions never share storage: no lookup of this version gives
\* it an entry of a bucket of another version.
C19_NoCrossVersionRead ==
    \A p \in Handlers :
        /\ h[p].cached \notin {OtherStored(k) : k \in Keys}
        /\ h[p].resp \notin {OtherStored(k) : k \in Keys}

\* C20: once a metrics request has been handled, its port has received a
\* record of three numbers: the hit ratio, the number of cached entries and
\* the network-request count.
C20_MetricsReply ==
    reply # NoReply =>
        /\ reply.posted
        /\ \A f \in {"cacheHitRatio", "cacheSize", "networkRequests"} :
               "number" \in DOMAIN reply.data[f]

\* C21: when a cache-storage operation of a strategy execution fails, the
\* request becomes a network passthrough: a live fetch is made, its response
\* is the one returned, and the execution writes nothing to the cache.
C21_StorageFaultPassesThrough ==
    \A p \in Handlers :
        (Done(p) /\ h[p].fault) =>
            /\ h[p].fetches = 1
            /\ h[p].live # Undefined => h[p].resp = h[p].live
            /\ h[p].put # "written"

\* C22: a request whose method is not GET is never intercepted: no strategy
\* is called for it, no lookup, fetch or cache write is made for it, and
\* the step that receives it leaves every bucket and counter unchanged.
C22_Left ==
    \A p \in Handlers :
        h[p].method # "GET" =>
            /\ h[p].st = "none" /\ Done(p) /\ h[p].resp = Undefined
            /\ ~h[p].looked /\ h[p].fetches = 0 /\ h[p].put = "none"

C22_Received ==
    (Len(h') > Len(h) /\ h'[Len(h')].method # "GET") =>
        /\ store' = store /\ names' = names
        /\ <<cacheHits, cacheMisses, networkRequests>>' =
               <<cacheHits, cacheMisses, networkRequests>>

C22_NonGetNotIntercepted == [](C22_Left) /\ [][C22_Received]_vars

C22_Witness ==
    \E p \in Handlers, q \in Handlers :
        /\ h[p].method = "POST" /\ h[p].st = "none"
        /\ h[q].method = "GET" /\ h[q].key = h[p].key /\ h[q].put = "written"
        /\ p \in h[q].after

\* The category of a URL: the first branch of the listener's dispatch whose
\* test the URL passes.
Categories == {"static", "external", "api", "other"}
InCategory(c, url) ==
    IF c = "static" THEN isStaticAsset(url)
    ELSE IF c = "external" THEN ~isStaticAsset(url) /\ isExternalResource(url)
    ELSE IF c = "api" THEN /\ ~isStaticAsset(url) /\ ~isExternalResource(url)
                           /\ isAPIRequest(url)
    ELSE /\ ~isStaticAsset(url) /\ ~isExternalResource(url)
         /\ ~isAPIRequest(url)
StrategyOf(c) ==
    IF c = "external" THEN STALE_WHILE_REVALIDATE
    ELSE IF c = "api" THEN NETWORK_FIRST
    ELSE CACHE_FIRST

C24_WaitsForPrior ==
    life.prior =>
        /\ life.state \notin {"activating", "activated"}
        /\ life.active = "prior"

\* C25: clients.claim has been called only when every deletion activation
\* started has completed: then no caches.keys or caches.delete of it is
\* pending and no bucket with a non-current name exists.
C25_ClaimAfterDeletions ==
    life.claimed =>
        /\ ~life.listing /\ life.todo = {}
        /\ \A n \in NameSet : n \in {STATIC_CACHE, DYNAMIC_CACHE}

C25_Witness ==
    /\ life.claimed /\ life.state = "activated"
    /\ "static-v1" \in life.found /\ "dynamic-v1" \notin life.found
    /\ "static-v1" \notin NameSet

\* The cacheFirst executions for key k whose write has completed.
Writers(k) == {r \in CacheFirstRuns : h[r].key = k /\ h[r].put = "written"}

\* C26: two cacheFirst executions for one key that both missed each made
\* their own live fetch and their own write; a write that completes sets
\* the key's entry of the static bucket to its own response, so after both
\* the entry is the response of the one that completed last, never missing
\* and never anything but the response of one of the writers.
C26_Both ==
    \A p \in CacheFirstRuns, q \in CacheFirstRuns :
        ( /\ p # q /\ h[p].key = h[q].key
          /\ p \in Writers(h[p].key) /\ q \in Writers(h[p].key)
          /\ h[p].cached = Undefined /\ h[q].cached = Undefined )
        => /\ h[p].fetches = 1 /\ h[q].fetches = 1
           /\ h[p].live # h[q].live
           /\ store[STATIC_CACHE][h[p].key] \in
                  {h[r].live : r \in Writers(h[p].key)}

C26_Completes ==
    \A p \in CacheFirstRuns :
        (h[p].put = "pending" /\ h'[p].put = "written") =>
            store'[STATIC_CACHE][h[p].key] = h[p].live

C26_LastWriteWins == [](C26_Both) /\ [][C26_Completes]_vars

C26_Witness ==
    \E p \in CacheFirstRuns, q \in CacheFirstRuns :
        /\ p < q /\ h[p].key = h[q].key
        /\ h[p].cached = Undefined /\ h[q].cached = Undefined
        /\ h[p].looked /\ h[q].looked
        /\ h[p].put = "written" /\ h[q].put = "written"
        /\ store[STATIC_CACHE][h[p].key] = h[p].live
        /\ h[p].live # h[q].live

\* The executions whose fallback lookup of the root page has settled with r
\* found (hit) or not.
FallbackLookups(hit) ==
    {p \in Handlers : /\ h[p].fellBack /\ Dest[h[p].key] = "document"
                      /\ Done(p) /\ h[p].resp # Rejected
                      /\ (h[p].resp # Undefined) = hit}

\* C27: the lookup of a cacheFirst execution that finds an entry adds one to
\* the hit counter and leaves the miss and network-request counters alone;
\* one that misses adds one to the miss counter and, the live fetch being
\* started, one to the network-request counter.  No other step of the
\* strategy counts, so the counters are the numbers of requests served from
\* the cache, of requests that missed and of fetches started (the lookup of
\* the root page by the offline fallback is a counted lookup of its own).
C27_Lookup ==
    \A p \in CacheFirstRuns :
        /\ (h[p].pc = "cf_match" /\ h'[p].pc # "cf_match" /\ ~h'[p].fault) =>
               IF CachesMatch(store, h[p].key) # Undefined
               THEN /\ cacheHits' = cacheHits + 1
                    /\ cacheMisses' = cacheMisses
                    /\ networkRequests' = networkRequests
                    /\ h'[p].pc = "done" /\ h'[p].fetches = 0
               ELSE /\ cacheMisses' = cacheMisses + 1
                    /\ networkRequests' = networkRequests + 1
                    /\ cacheHits' = cacheHits
                    /\ h'[p].fetches = 1
        /\ (h[p].pc \in {"cf_fetch", "cf_open"} /\ h'[p] # h[p]) =>
               <<cacheHits, cacheMisses, networkRequests>>' =
                   <<cacheHits, cacheMisses, networkRequests>>

C27_Totals ==
    /\ cacheHits = Cardinality({p \in Handlers : h[p].cached # Undefined})
                    + Cardinality(FallbackLookups(TRUE))
    /\ cacheMisses =
           Cardinality({p \in Handlers : h[p].looked /\ h[p].cached = Undefined})
           + Cardinality(FallbackLookups(FALSE))
    /\ networkRequests = Cardinality({p \in Handlers : h[p].fetches = 1})

C27_CountersPerRequest == [](C27_Totals) /\ [][C27_Lookup]_vars

C27_Witness ==
    \E p \in CacheFirstRuns, q \in CacheFirstRuns :
        /\ Done(p) /\ h[p].cached # Undefined /\ h[p].fetches = 0
        /\ Done(q) /\ h[q].looked /\ h[q].cached = Undefined
        /\ h[q].resp = h[q].live /\ Ok(h[q].live)
        /\ cacheHits = 1 /\ cacheMisses = 1 /\ networkRequests = 1

\* C28: in a sync run (the store working) an entry is deleted exactly when
\* its replay fetch resolved, with an ok or with an error status, and only
\* an entry whose fetch was rejected stays queued; the queue changes only
\* by the removal of the entry whose replay has just resolved.
C28_Inv ==
    ~sync.fault =>
        \A e \in Passed :
            /\ sync.out[e.id] \in {"ok", "bad"} <=> ~InQueue(e.id)
            /\ sync.out[e.id] = "down" <=> e \in queue

C28_Step ==
    queue' # queue =>
        /\ sync.pc = "remove"
        /\ sync.out[sync.requests[sync.i].id] \in {"ok", "bad"}
        /\ queue' = queue \ {sync.requests[sync.i]}

C29_Entries ==
    \A b \in Buckets, k \in Keys : store[b][k] # Undefined => Ok(store[b][k])

C29_Returned ==
    \A p \in Handlers :
        /\ Done(p)
        /\ h[p].st \in {CACHE_FIRST, NETWORK_FIRST}
        /\ h[p].live \notin {Undefined, Rejected}
        /\ ~Ok(h[p].live)
        => /\ h[p].resp = h[p].live
           /\ \A b \in Buckets, k \in Keys : store[b][k] # h[p].live

C29_Write ==
    \A b \in Buckets, k \in Keys :
        store'[b][k] # store[b][k] =>
            /\ store'[b][k] # Undefined
            /\ Ok(store'[b][k])

C29_OnlySuccessStored ==
    [](C29_Entries /\ C29_Returned) /\ [][C29_Write]_vars

C29_Witness ==
    /\ upd.pc = "done"
    /\ \E k \in Keys : /\ store[DYNAMIC_CACHE][k].kind = "live"
                        /\ store[DYNAMIC_CACHE][k].by < 0
    /\ \E k \in Keys : upd.out[k] = "bad" /\ store[DYNAMIC_CACHE][k] = Stored(k)
    /\ \E p \in Handlers :
          /\ Done(p)
          /\ h[p].live.status = 500
          /\ h[p].resp = h[p].live

\* C30: a run of updateCache fetches every key the dynamic bucket held
\* when it was listed once, replaces an entry only with the ok response of
\* its own refetch, goes on to the remaining keys after a failure, and its
\* steps neither add nor remove a key nor change another bucket; a
\* periodicsync event with another tag starts nothing and changes nothing.
C30_Run ==
    /\ \A k \in Keys : upd.tries[k] <= 1
    /\ upd.pc = "done" /\ upd.listed =>
          \A i \in DOMAIN upd.requests :
              /\ upd.tries[upd.requests[i]] = 1
              /\ upd.out[upd.requests[i]] \in NetStates

C30_Step ==
    upd' # upd =>
        /\ \A b \in AllNames \ {DYNAMIC_CACHE} : store'[b] = store[b]
        /\ KeysOf(store'[DYNAMIC_CACHE]) = KeysOf(store[DYNAMIC_CACHE])
        /\ \A k \in Keys :
              store'[DYNAMIC_CACHE][k] # store[DYNAMIC_CACHE][k] =>
                  /\ upd.pc = "put"
                  /\ k = upd.requests[upd.i]
                  /\ upd.out[k] = "ok"
                  /\ store'[DYNAMIC_CACHE][k] = Refetched(k, upd.events, "ok")
        /\ upd.pc = "keys" /\ upd'.listed =>
              /\ Len(upd'.requests) = Cardinality(KeysOf(store[DYNAMIC_CACHE]))
              /\ {upd'.requests[i] : i \in DOMAIN upd'.requests}
                     = KeysOf(store[DYNAMIC_CACHE])
        /\ upd'.events # upd.events /\ upd'.tag # "cache-update" =>
              /\ upd' = [upd EXCEPT !.events = upd'.events, !.tag = upd'.tag]
              /\ UNCHANGED <<store, h, faults, cacheHits, cacheMisses,
                             networkRequests, names, queue>>

C30_UpdateRefreshesInPlace == [](C30_Run) /\ [][C30_Step]_vars

C30_Witness ==
    /\ upd.pc = "done" /\ upd.listed /\ Len(upd.requests) = 2
    /\ upd.out[upd.requests[1]] = "down"
    /\ store[DYNAMIC_CACHE][upd.requests[1]] = Stored(upd.requests[1])
    /\ upd.out[upd.requests[2]] = "ok"
    /\ store[DYNAMIC_CACHE][upd.requests[2]]
          = Refetched(upd.requests[2], upd.events, "ok")
====
